---- MODULE Spec2Model ----
(***************************************************************************)
(* The DFS stepping engine of src/src/App.jsx: the useDFS hook (visited,   *)
(* stack, current, isRunning, isDone, speed, the auto-run timeout) and the *)
(* App component's start node and node-click handler.                      *)
(*                                                                         *)
(* One action is one event handler (a button's callback, a node click, a   *)
(* timeout firing) together with the render it causes and the effects of   *)
(* that render: state setters are batched, the component re-renders with   *)
(* the new state, the auto-run effect's cleanup and body run when one of   *)
(* its dependencies changed.  A pending timeout holds the `step` closure   *)
(* of the render that armed it, i.e. the stack, visited and isDone values  *)
(* of that render; functional updates (setX(prev => ...)) act on the       *)
(* state at the time the closure runs.                                     *)
(***************************************************************************)
EXTENDS Integers, Sequences, FiniteSets, TLC

\* ---------------------------------------------------------------- bounds
\* Longest edge list of the enumerated small graphs.
MaxEdges == 2

\* ------------------------------------------------------------- constants
\* useState(500): the initial speed.
InitialSpeed == 500
\* the slider's min="100".
SliderMin == 100

\* `null` of setCurrent(null) / useState(null).
null == "null"
\* timeoutRef.current before any timeout was armed (useRef(null)); timeout
\* ids are positive integers.
NoTimeout == 0

\* ---------------------------------------------------------------- graphs
\* createInitialElements: the reference graph.
initialNodes == {"A", "B", "C", "D", "E", "F"}

initialEdges ==
  << [source |-> "A", target |-> "B"],
     [source |-> "A", target |-> "C"],
     [source |-> "B", target |-> "D"],
     [source |-> "B", target |-> "E"],
     [source |-> "C", target |-> "E"],
     [source |-> "C", target |-> "F"] >>

\* Node ids of the enumerated small graphs, and an id that no graph has as
\* a node (it may be an edge's target, or the start id).
SmallNodes == {"A", "B", "C"}
AbsentId == "Z"

SeqsUpTo(S, n) == UNION { [1..k -> S] : k \in 0..n }

\* The graphs a host can hand to useDFS(initialNodes, initialEdges, _):
\* the reference graph and every edge list of at most MaxEdges edges over
\* SmallNodes, targets possibly dangling, duplicates and loops allowed.
GraphSet ==
  { [nodes |-> initialNodes, edges |-> initialEdges] } \cup
  { [nodes |-> SmallNodes, edges |-> e] :
      e \in SeqsUpTo([source : SmallNodes, target : SmallNodes \cup {AbsentId}], MaxEdges) }

\* The values the host passes to setSpeed: slider positions, and 0 as a
\* value the slider cannot produce but the setter accepts.
SpeedInputs == {0, SliderMin, InitialSpeed}

\* ----------------------------------------------------------------- state
VARIABLES
  nodes,       \* the graph's node ids (initialNodes)
  edges,       \* the graph's edge list (initialEdges / edges state)
  startNode,   \* App's startNode state = useDFS's startNodeId
  visited,     \* useState([])
  stack,       \* useState([])
  current,     \* useState(null)
  isRunning,   \* useState(false)
  isDone,      \* useState(false)
  speed,       \* useState(500)
  timeoutRef,  \* timeoutRef.current
  timers,      \* the pending timeouts: id, delay and the step closure
  hasCleanup   \* whether the auto-run effect's last run returned a cleanup

vars == << nodes, edges, startNode, visited, stack, current, isRunning,
           isDone, speed, timeoutRef, timers, hasCleanup >>

algState == << visited, stack, current, isDone >>

\* ------------------------------------------------------- array helpers
\* Array.prototype.includes
includes(arr, x) == \E i \in 1..Len(arr) : arr[i] = x

\* reverse that returns the array as it is.
reverse_identity(arr) == arr

\* Array.prototype.reverse
reverse(arr) == [i \in 1..Len(arr) |-> arr[Len(arr) + 1 - i]]

\* Array.prototype.slice(0, -1)
sliceButLast(arr) == IF Len(arr) = 0 THEN << >> ELSE SubSeq(arr, 1, Len(arr) - 1)

\* Array.prototype.filter(x => !seen.includes(x))
RECURSIVE filterNotIn(_, _)
filterNotIn(arr, seen) ==
  IF arr = << >> THEN << >>
  ELSE IF includes(seen, Head(arr)) THEN filterNotIn(Tail(arr), seen)
       ELSE << Head(arr) >> \o filterNotIn(Tail(arr), seen)

\* getNeighbors with .map(edge => edge.source): a node's neighbours are
\* copies of itself.
getNeighborsOf_mapSource(es, nodeId) ==
  LET own == SelectSeq(es, LAMBDA e : e.source = nodeId) IN
  [i \in 1..Len(own) |-> own[i].source]

\* getNeighbors that validates: targets that are no node are dropped.
getNeighborsOf_skipDangling(es, nodeId) ==
  LET own == SelectSeq(es, LAMBDA e : e.source = nodeId /\ e.target \in nodes) IN
  [i \in 1..Len(own) |-> own[i].target]

\* edges.filter(edge => edge.source === nodeId).map(edge => edge.target)
RECURSIVE getNeighborsOf(_, _)
getNeighborsOf(es, nodeId) ==
  IF es = << >> THEN << >>
  ELSE IF Head(es).source = nodeId
       THEN << Head(es).target >> \o getNeighborsOf(Tail(es), nodeId)
       ELSE getNeighborsOf(Tail(es), nodeId)

getNeighbors(nodeId) == getNeighborsOf(edges, nodeId)

\* ------------------------------------------------------------ the hook
\* The state of one render, as a record the handlers map to the next one.
Cur ==
  [ startNode |-> startNode, visited |-> visited, stack |-> stack,
    current |-> current, isRunning |-> isRunning, isDone |-> isDone,
    speed |-> speed, timeoutRef |-> timeoutRef, timers |-> timers,
    hasCleanup |-> hasCleanup ]

\* The `step` closure of render s: useCallback(..., [getNeighbors, isDone,
\* stack, visited]) captures these values.
closureOf(s) == [stack |-> s.stack, visited |-> s.visited, isDone |-> s.isDone]

\* clearTimeout(id): a fired, cleared or unknown id is ignored.
clearTimeout(tm, id) == { t \in tm : t.id # id }

\* setTimeout's return value: an id no pending timeout has, and not the one
\* timeoutRef still holds.
newTimeoutId(tm, ref) ==
  CHOOSE i \in 1..(Cardinality(tm) + 2) :
    /\ i # ref
    /\ \A t \in tm : t.id # i
    /\ \A j \in 1..(i - 1) : j = ref \/ \E t \in tm : t.id = j

\* reset also restoring the initial speed.
reset_restoresSpeed(s) ==
  [ s EXCEPT !.visited = << >>,
             !.stack = << >>,
             !.current = null,
             !.isRunning = FALSE,
             !.isDone = FALSE,
             !.speed = InitialSpeed,
             !.timers = IF s.timeoutRef # NoTimeout
                        THEN clearTimeout(s.timers, s.timeoutRef)
                        ELSE s.timers ]

\* reset: clears the run state and the timeout timeoutRef names.
reset(s) ==
  [ s EXCEPT !.visited = << >>,
             !.stack = << >>,
             !.current = null,
             !.isRunning = FALSE,
             !.isDone = FALSE,
             !.timers = IF s.timeoutRef # NoTimeout
                        THEN clearTimeout(s.timers, s.timeoutRef)
                        ELSE s.timers ]

\* startDFS without the call of reset().
startDFS_noReset(s) ==
  [ s EXCEPT !.stack = << s.startNode >>, !.isRunning = TRUE ]

\* startDFS: reset(); setStack([startNodeId]); setIsRunning(true).
startDFS(s) ==
  [ reset(s) EXCEPT !.stack = << s.startNode >>, !.isRunning = TRUE ]

\* step's first branch with setIsDone(d => !d) for setIsDone(true).
stepTerminate_togglesDone(s) ==
  [ s EXCEPT !.isDone = ~s.isDone, !.isRunning = FALSE ]

\* step's first branch without setIsRunning(false).
stepTerminate_keepsRunning(s) == [ s EXCEPT !.isDone = TRUE ]

\* step, first branch: if (isDone || stack.length === 0) { setIsDone(true);
\* setIsRunning(false); return; }
stepTerminate(s) == [ s EXCEPT !.isDone = TRUE, !.isRunning = FALSE ]

\* stepDiscover with on-push marking: the pushed neighbours are appended to
\* visited together with node.
stepDiscover_markOnPush(s, cl, node) ==
  LET neighbors == reverse(filterNotIn(getNeighbors(node), cl.visited)) IN
  IF Len(neighbors) = 0
  THEN [ s EXCEPT !.current = node,
                  !.visited = Append(s.visited, node),
                  !.stack = sliceButLast(s.stack) ]
  ELSE [ s EXCEPT !.current = node,
                  !.visited = Append(s.visited, node) \o reverse(neighbors),
                  !.stack = sliceButLast(s.stack) \o << node >> \o neighbors ]

\* stepDiscover without .reverse().
stepDiscover_noReverse(s, cl, node) ==
  LET neighbors == filterNotIn(getNeighbors(node), cl.visited) IN
  IF Len(neighbors) = 0
  THEN [ s EXCEPT !.current = node,
                  !.visited = Append(s.visited, node),
                  !.stack = sliceButLast(s.stack) ]
  ELSE [ s EXCEPT !.current = node,
                  !.visited = Append(s.visited, node),
                  !.stack = sliceButLast(s.stack) \o << node >> \o neighbors ]

\* stepDiscover without the immediate backtrack: node stays on the stack
\* also when it has no unvisited neighbour.
stepDiscover_noImmediateBacktrack(s, cl, node) ==
  LET neighbors == reverse(filterNotIn(getNeighbors(node), cl.visited)) IN
  [ s EXCEPT !.current = node,
             !.visited = Append(s.visited, node),
             !.stack = sliceButLast(s.stack) \o << node >> \o neighbors ]

\* step, the branch !visited.includes(node): node is appended to visited,
\* its neighbours not in the closure's visited are pushed in reverse order
\* above node, or node is popped when there is none.
stepDiscover(s, cl, node) ==
  LET neighbors == reverse(filterNotIn(getNeighbors(node), cl.visited)) IN
  IF Len(neighbors) = 0
  THEN [ s EXCEPT !.current = node,
                  !.visited = Append(s.visited, node),
                  !.stack = sliceButLast(s.stack) ]
  ELSE [ s EXCEPT !.current = node,
                  !.visited = Append(s.visited, node),
                  !.stack = sliceButLast(s.stack) \o << node >> \o neighbors ]

\* stepBacktrack with prev.slice(0) for prev.slice(0, -1): nothing is popped.
stepBacktrack_noPop(s, node) ==
  [ s EXCEPT !.current = node ]

\* step, the else branch: node already visited, pop it.
stepBacktrack(s, node) ==
  [ s EXCEPT !.current = node, !.stack = sliceButLast(s.stack) ]

\* step without the visited.includes(node) test: a re-arrival is treated as
\* a discovery.
step_noVisitedCheck(s, cl) ==
  IF cl.isDone \/ Len(cl.stack) = 0
  THEN [ s EXCEPT !.isDone = TRUE, !.isRunning = FALSE ]
  ELSE
    LET node == cl.stack[Len(cl.stack)]
        neighbors == reverse(filterNotIn(getNeighbors(node), cl.visited))
    IN
    IF Len(neighbors) = 0
    THEN [ s EXCEPT !.current = node,
                    !.visited = Append(s.visited, node),
                    !.stack = sliceButLast(s.stack) ]
    ELSE [ s EXCEPT !.current = node,
                    !.visited = Append(s.visited, node),
                    !.stack = sliceButLast(s.stack) \o << node >> \o neighbors ]

\* step terminating one entry early: stack.length <= 1 instead of === 0.
step_doneWhenOneLeft(s, cl) ==
  IF cl.isDone \/ Len(cl.stack) <= 1
  THEN [ s EXCEPT !.isDone = TRUE, !.isRunning = FALSE ]
  ELSE
    LET node == cl.stack[Len(cl.stack)] IN
    IF ~includes(cl.visited, node)
    THEN
      LET neighbors == reverse(filterNotIn(getNeighbors(node), cl.visited)) IN
      IF Len(neighbors) = 0
      THEN [ s EXCEPT !.current = node,
                      !.visited = Append(s.visited, node),
                      !.stack = sliceButLast(s.stack) ]
      ELSE [ s EXCEPT !.current = node,
                      !.visited = Append(s.visited, node),
                      !.stack = sliceButLast(s.stack) \o << node >> \o neighbors ]
    ELSE [ s EXCEPT !.current = node, !.stack = sliceButLast(s.stack) ]

\* step, run as the closure cl (the isDone, stack and visited of the render
\* that created it) against the state s: plain reads use cl, functional
\* updates (prev => ...) use s.
step(s, cl) ==
  IF cl.isDone \/ Len(cl.stack) = 0
  THEN stepTerminate(s)
  ELSE
    LET node == cl.stack[Len(cl.stack)] IN
    IF ~includes(cl.visited, node)
    THEN stepDiscover(s, cl, node)
    ELSE stepBacktrack(s, node)

\* Whether a step run as closure cl calls setStack (with a new array).
stepSetsArrays(cl) == ~(cl.isDone \/ Len(cl.stack) = 0)

\* onPause implemented by reset().
onPause_resets(s) == reset(s)

\* onPause: setIsRunning(false).
onPause(s) == [ s EXCEPT !.isRunning = FALSE ]

\* onSpeedChange: setSpeed(v).
setSpeed(s, v) == [ s EXCEPT !.speed = v ]

\* handleNodeClick without the call of reset().
handleNodeClick_noReset(s, id) ==
  IF ~s.isRunning /\ ~s.isDone
  THEN [ s EXCEPT !.startNode = id ]
  ELSE s

\* handleNodeClick: only when neither running nor done.
handleNodeClick(s, id) ==
  IF ~s.isRunning /\ ~s.isDone
  THEN [ reset(s) EXCEPT !.startNode = id ]
  ELSE s

\* The dependency list without isRunning.
depsChanged_noIsRunning(old, new, newArrays) ==
  \/ newArrays
  \/ old.isDone # new.isDone
  \/ old.speed # new.speed

\* The dependency list without step and stack.
depsChanged_noStack(old, new, newArrays) ==
  \/ old.isRunning # new.isRunning
  \/ old.isDone # new.isDone
  \/ old.speed # new.speed

\* The auto-run effect's dependency list [isRunning, isDone, step, speed,
\* stack] compared between the render `old` and the render `new`; newArrays
\* says that the handler stored a new array in stack or visited, or new
\* edges (so that getNeighbors and step are new functions).
depsChanged(old, new, newArrays) ==
  \/ newArrays
  \/ old.isRunning # new.isRunning
  \/ old.isDone # new.isDone
  \/ old.speed # new.speed

\* The auto-run effect without `return () => clearTimeout(...)`.
autoRunEffect_noCleanup(old, new, newArrays) ==
  IF ~depsChanged(old, new, newArrays) THEN new
  ELSE
    IF new.isRunning /\ ~new.isDone
    THEN
      LET id == newTimeoutId(new.timers, new.timeoutRef) IN
      [ new EXCEPT !.timers = new.timers \cup
                     { [id |-> id, delay |-> new.speed, closure |-> closureOf(new)] },
                   !.timeoutRef = id,
                   !.hasCleanup = FALSE ]
    ELSE [ new EXCEPT !.hasCleanup = FALSE ]

\* The auto-run effect after the render `new` that follows render `old`:
\* when a dependency changed, the previous run's cleanup (if it returned
\* one) clears the timeout timeoutRef names, then the body arms a timeout
\* with the new step closure if isRunning && !isDone.
autoRunEffect(old, new, newArrays) ==
  IF ~depsChanged(old, new, newArrays) THEN new
  ELSE
    LET cleaned == IF new.hasCleanup
                   THEN clearTimeout(new.timers, new.timeoutRef)
                   ELSE new.timers
    IN
    IF new.isRunning /\ ~new.isDone
    THEN
      LET id == newTimeoutId(cleaned, new.timeoutRef) IN
      [ new EXCEPT !.timers = cleaned \cup
                     { [id |-> id, delay |-> new.speed, closure |-> closureOf(new)] },
                   !.timeoutRef = id,
                   !.hasCleanup = TRUE ]
    ELSE [ new EXCEPT !.timers = cleaned, !.hasCleanup = FALSE ]

\* The next render's state becomes the state.
Commit(r) ==
  \E x \in {r} :
    /\ startNode' = x.startNode
    /\ visited' = x.visited
    /\ stack' = x.stack
    /\ current' = x.current
    /\ isRunning' = x.isRunning
    /\ isDone' = x.isDone
    /\ speed' = x.speed
    /\ timeoutRef' = x.timeoutRef
    /\ timers' = x.timers
    /\ hasCleanup' = x.hasCleanup
    /\ UNCHANGED << nodes, edges >>

\* ------------------------------------------------------- initial state
\* useDFS(initialNodes, initialEdges, startNodeId) right after mounting: the
\* graph and the start id are the host's arguments.
Init ==
  /\ \E g \in GraphSet : nodes = g.nodes /\ edges = g.edges
  /\ startNode \in nodes \cup {AbsentId}
  /\ visited = << >>
  /\ stack = << >>
  /\ current = null
  /\ isRunning = FALSE
  /\ isDone = FALSE
  /\ speed = InitialSpeed
  /\ timeoutRef = NoTimeout
  /\ timers = {}
  /\ hasCleanup = FALSE

\* --------------------------------------------------------------- actions
\* Start / Restart button.
StartDFS == Commit(autoRunEffect(Cur, startDFS(Cur), TRUE))

\* Step button: the current render's step.
ManualStep ==
  Commit(autoRunEffect(Cur, step(Cur, closureOf(Cur)), stepSetsArrays(closureOf(Cur))))

\* A pending timeout fires: the step closure it was armed with runs.
TimerFire ==
  \E t \in timers :
    \E fired \in { [ Cur EXCEPT !.timers = timers \ {t} ] } :
      \E stepped \in { step(fired, t.closure) } :
        Commit(autoRunEffect(Cur, stepped, stepSetsArrays(t.closure)))

\* Pause button.
Pause == Commit(autoRunEffect(Cur, onPause(Cur), FALSE))

\* Reset button.
Reset == Commit(autoRunEffect(Cur, reset(Cur), TRUE))

\* Speed slider.
SetSpeed == \E v \in SpeedInputs : Commit(autoRunEffect(Cur, setSpeed(Cur, v), FALSE))

\* Click on a node of the graph.
NodeClick ==
  \E id \in nodes :
    Commit(autoRunEffect(Cur, handleNodeClick(Cur, id), ~isRunning /\ ~isDone))

Next ==
  \/ StartDFS
  \/ ManualStep
  \/ TimerFire
  \/ Pause
  \/ Reset
  \/ SetSpeed
  \/ NodeClick

Spec == Init /\ [][Next]_vars

\* ------------------------------------------------------------ auto-play
\* A run left in auto-play: the speed is chosen and Start is pressed in
\* Idle, then only the timeout acts (no pause, reset, restart, manual step
\* or speed change).  The browser fires every pending timeout that is not
\* cleared: weak fairness of TimerFire.
AutoChooseSpeed ==
  /\ ~isRunning /\ ~isDone /\ stack = << >>
  /\ SetSpeed

AutoStart ==
  /\ ~isRunning /\ ~isDone /\ stack = << >> /\ visited = << >>
  /\ StartDFS

AutoNext ==
  \/ AutoChooseSpeed
  \/ AutoStart
  \/ TimerFire

AutoSpec == Init /\ [][AutoNext]_vars /\ WF_vars(TimerFire)

\* ------------------------------------------------------------ type check
Ids == nodes \cup {AbsentId}

TypeOK ==
  /\ startNode \in Ids
  /\ \A i \in 1..Len(visited) : visited[i] \in Ids
  /\ \A i \in 1..Len(stack) : stack[i] \in Ids
  /\ current \in Ids \cup {null}
  /\ isRunning \in BOOLEAN
  /\ isDone \in BOOLEAN
  /\ speed \in SpeedInputs
  /\ timeoutRef \in Nat
  /\ hasCleanup \in BOOLEAN

\* ------------------------------------------------- notions of the claims
ToSet(arr) == { arr[i] : i \in 1..Len(arr) }

NoDuplicates(arr) == \A i, j \in 1..Len(arr) : arr[i] = arr[j] => i = j

IsPrefix(a, b) == Len(a) <= Len(b) /\ \A i \in 1..Len(a) : a[i] = b[i]

\* The ids reachable from id along directed edges, id itself included.
RECURSIVE ReachClosure(_)
ReachClosure(S) ==
  LET more == S \cup { edges[i].target : i \in { k \in 1..Len(edges) : edges[k].source \in S } }
  IN IF more = S THEN S ELSE ReachClosure(more)

Reachable(id) == ReachClosure({id})

IsReferenceGraph == edges = initialEdges

ReferenceOrder == << "A", "B", "D", "E", "C", "F" >>

AnyStep == ManualStep \/ TimerFire

\* ------------------------------------------------------------------- C1
\* C1: on the reference graph with start node A, visited grows in exactly
\* the order A, B, D, E, C, F (it is always a prefix of that sequence), and
\* it is the whole sequence when a started run is done.
C1_ReferenceOrder ==
  (IsReferenceGraph /\ startNode = "A") =>
     /\ IsPrefix(visited, ReferenceOrder)
     /\ (isDone /\ visited # << >>) => visited = ReferenceOrder

C1_Witness ==
  IsReferenceGraph /\ startNode = "A" /\ isDone /\ visited = ReferenceOrder

\* ------------------------------------------------------------------- C2
\* C2: in every reachable state, for every graph and start id and after any
\* sequence of start, step, pause, reset, setSpeed and timer firings,
\* visited contains no id twice.
C2_NoDuplicateVisits == NoDuplicates(visited)

\* a node reached a second time (it is on the stack twice, once as the
\* parent marker or a second push) after it was visited.
C2_Witness ==
  /\ Len(stack) > 0
  /\ includes(visited, stack[Len(stack)])
  /\ Len(visited) >= 2
  /\ \E i, j \in 1..Len(edges) : i # j /\ edges[i].target = edges[j].target

\* ------------------------------------------------------------------- C3
\* C3: visited never holds an id that is not reachable from the start id,
\* and when a started run is done visited holds every id reachable from the
\* start id, each exactly once.
C3_Reachability ==
  /\ ToSet(visited) \subseteq Reachable(startNode)
  /\ (isDone /\ visited # << >>) =>
       /\ ToSet(visited) = Reachable(startNode)
       /\ Len(visited) = Cardinality(Reachable(startNode))

\* a finished run on a graph with reachable and unreachable nodes.
C3_Witness ==
  /\ isDone
  /\ Len(visited) >= 2
  /\ \E n \in nodes : n \notin Reachable(startNode)

\* ------------------------------------------------------------------- C4
\* C4: a step (manual or fired by the timer) in a state where isDone is
\* true leaves visited, stack and current unchanged and isDone true.
C4_StepWhenDoneIsNoOp ==
  [][(isDone /\ AnyStep) => (UNCHANGED << visited, stack, current >> /\ isDone')]_vars

C4_Witness == isDone /\ current # null /\ visited # << >>

\* ------------------------------------------------------------------- C5
\* C5 as stated: the stack is empty exactly when isDone is true.
C5_StackEmptyIffDone == (stack = << >>) <=> isDone

\* C5 amended: isDone implies that the stack is empty; an empty stack does
\* not imply isDone (Idle, and the state after the last pop), but a step
\* taken with an empty stack sets isDone.
C5_DoneImpliesEmpty ==
  /\ [](isDone => stack = << >>)
  /\ [][((stack = << >>) /\ ~isDone /\ AnyStep) => isDone']_vars

\* the state after the last pop of a run: stack empty, not yet done.
C5_Witness == stack = << >> /\ ~isDone /\ visited # << >>

\* ------------------------------------------------------------------- C6
\* C6: from any state, start produces visited = [], current = none,
\* isDone = false, stack = [start id], isRunning = true, and nothing of the
\* prior run survives: the one pending timeout is the new run's.
C6_StartClearsPriorRun ==
  [][StartDFS =>
       /\ visited' = << >>
       /\ current' = null
       /\ ~isDone'
       /\ stack' = << startNode >>
       /\ isRunning'
       /\ startNode' = startNode
       /\ \A t \in timers' : t.closure = [stack |-> << startNode >>,
                                          visited |-> << >>,
                                          isDone |-> FALSE]
    ]_vars

\* a freshly started run that is not the first one: the timeout armed for
\* it is not the first timeout of the session.
C6_Witness ==
  /\ stack = << startNode >>
  /\ visited = << >>
  /\ current = null
  /\ isRunning
  /\ ~isDone
  /\ speed = InitialSpeed
  /\ timeoutRef > 1

\* ------------------------------------------------------------------- C7
\* C7: while isRunning is false (after pause) no timer firing changes
\* visited, stack, current or isDone.
C7_NoAutoChangeWhenPaused ==
  [][~isRunning => ~(TimerFire /\ algState' # algState)]_vars

\* a run paused midway.
C7_Witness ==
  /\ ~isRunning
  /\ ~isDone
  /\ stack # << >>
  /\ visited # << >>
  /\ timeoutRef # NoTimeout

\* ------------------------------------------------------------------- C8
\* C8: whenever isRunning is false or isDone is true no timeout is pending,
\* so no automatic step executes in such a state.
C8_NoTimerOutsideRunning == (~isRunning \/ isDone) => timers = {}

\* a finished auto-played run: the timeouts armed during it are gone.
C8_Witness ==
  /\ isDone
  /\ ~isRunning
  /\ visited # << >>
  /\ timeoutRef # NoTimeout
  /\ timers = {}

\* ------------------------------------------------------------------- C9
\* C9: at most one timeout is pending; a pending timeout is the one
\* timeoutRef names, was armed for the present state (its step closure sees
\* the present stack, visited and isDone, its delay is the present speed),
\* while isRunning is true and isDone is false.
C9_SingleFreshTimer ==
  /\ Cardinality(timers) <= 1
  /\ \A t \in timers :
       /\ t.id = timeoutRef
       /\ t.closure = closureOf(Cur)
       /\ t.delay = speed
       /\ isRunning
       /\ ~t.closure.isDone

\* a timeout re-armed midway through a run, after a speed change.
C9_Witness ==
  /\ Cardinality(timers) = 1
  /\ Len(visited) >= 2
  /\ speed # InitialSpeed
  /\ timeoutRef > 1

\* ------------------------------------------------------------------ C10
\* C10: with a start id that is no node of the graph, visited is [] or
\* [that id], the stack never holds any other id, the step that produces
\* visited = [id] empties the stack, and the next step sets isDone.
C10_AbsentStart ==
  /\ [](startNode = AbsentId =>
          /\ visited \in { << >>, << AbsentId >> }
          /\ stack \in { << >>, << AbsentId >> }
          /\ (visited = << AbsentId >> => stack = << >>)
          /\ (stack = << AbsentId >> => ~isDone))
  /\ [][(startNode = AbsentId /\ visited = << AbsentId >> /\ ~isDone /\ AnyStep)
          => (isDone' /\ visited' = << AbsentId >> /\ stack' = << >>)]_vars

C10_Witness ==
  /\ startNode = AbsentId
  /\ visited = << AbsentId >>
  /\ stack = << >>
  /\ current = AbsentId
  /\ isDone
  /\ edges # << >>

\* ------------------------------------------------------------------ C11
\* C11: pause, from Running, sets isRunning to false and leaves visited,
\* stack, current, isDone and speed as they were.
C11_PausePreservesRun ==
  [][(isRunning /\ Pause) =>
       (~isRunning' /\ UNCHANGED << visited, stack, current, isDone, speed >>)]_vars

\* a run paused after some discoveries, with work left on the stack.
C11_Witness ==
  /\ ~isRunning
  /\ ~isDone
  /\ Len(stack) >= 2
  /\ Len(visited) >= 2
  /\ timers = {}

\* ------------------------------------------------------------------ C12
\* C12: reset, from any state, yields visited = [], stack = [], current =
\* none, isRunning = false, isDone = false and leaves speed unchanged; a
\* change of speed is always a setSpeed (start, step, pause, reset and a
\* node click leave it unchanged).
C12_ResetKeepsSpeed ==
  [][/\ Reset => /\ visited' = << >>
                 /\ stack' = << >>
                 /\ current' = null
                 /\ ~isRunning'
                 /\ ~isDone'
                 /\ speed' = speed
     /\ speed' # speed => (SetSpeed /\ ~(StartDFS \/ AnyStep \/ Pause \/ NodeClick))
    ]_vars

\* the Idle state after the reset of a run whose speed had been changed.
C12_Witness ==
  /\ visited = << >>
  /\ stack = << >>
  /\ current = null
  /\ ~isRunning
  /\ ~isDone
  /\ speed # InitialSpeed
  /\ timeoutRef # NoTimeout

\* ------------------------------------------------------------------ C13
\* C13: for every graph and start id, a started run left in auto-play
\* eventually reaches isDone = true with isRunning = false, given that
\* pending timeouts fire.
C13_AutoPlayTerminates == isRunning ~> (isDone /\ ~isRunning)

\* an auto-played run that has finished after several discoveries.
C13_Witness ==
  /\ isDone
  /\ ~isRunning
  /\ Len(visited) >= 3
  /\ timers = {}

RECURSIVE PreOrderFrom(_, _), PreOrderList(_, _)
PreOrderFrom(node, seen) ==
  IF includes(seen, node) THEN seen
  ELSE PreOrderList(getNeighbors(node), Append(seen, node))

PreOrderList(nbrs, seen) ==
  IF nbrs = << >> THEN seen
  ELSE PreOrderList(Tail(nbrs), PreOrderFrom(Head(nbrs), seen))

\* C15: for every graph of the bounded set and every start id, visited is
\* always a prefix of the recursive DFS pre-order from the start id, and
\* equals it when a started run is done.
C15_EqualsRecursivePreOrder ==
  /\ IsPrefix(visited, PreOrderFrom(startNode, << >>))
  /\ (isDone /\ visited # << >>) => visited = PreOrderFrom(startNode, << >>)

\* a finished run on a graph with a cycle through the start node.
C15_Witness ==
  /\ isDone
  /\ Len(visited) >= 2
  /\ \E i \in 1..Len(edges) :
       /\ edges[i].target = startNode
       /\ edges[i].source # startNode
       /\ edges[i].source \in ToSet(visited)

\* ------------------------------------------------------------------ C16
\* The stack top, and whether a step now discovers it and pushes.
Top == stack[Len(stack)]

DiscoversAndPushes ==
  /\ ~isDone
  /\ stack # << >>
  /\ ~includes(visited, Top)
  /\ filterNotIn(getNeighbors(Top), visited) # << >>

\* C16: a step that discovers n and pushes leaves the old stack in place and
\* appends the reverse of neighbors(n) filtered against visited with n
\* already appended, so that no pushed id is in visited after the step.
C16_PushedFilteredAfterAppend ==
  [][(DiscoversAndPushes /\ AnyStep) =>
       /\ stack' = stack \o reverse(filterNotIn(getNeighbors(Top), Append(visited, Top)))
       /\ \A i \in (Len(stack) + 1)..Len(stack') : ~includes(visited', stack'[i])
    ]_vars

\* ------------------------------------------------------------------ C17
\* C17: a step appends at most one id to visited, and that id is the one
\* on top of the stack when the step starts; visited grows by steps only.
C17_MarkOnPop ==
  [][/\ \/ visited' = visited
        \/ stack # << >> /\ visited' = Append(visited, Top)
        \/ ~AnyStep
     /\ (visited' # visited /\ visited' # << >>) => AnyStep
    ]_vars

\* an id that is on the stack twice and not in visited.
C17_Witness ==
  \E i, j \in 1..Len(stack) :
    /\ i # j
    /\ stack[i] = stack[j]
    /\ ~includes(visited, stack[i])

\* ------------------------------------------------------------------ C18
\* C18 as stated (its last part): the target of a dangling edge never
\* appears in stack or visited.
C18_DanglingNeverVisited ==
  startNode # AbsentId =>
    (~includes(stack, AbsentId) /\ ~includes(visited, AbsentId))

Occurrences(arr, x) == Cardinality({ i \in 1..Len(arr) : arr[i] = x })

\* C18 amended: the target of a dangling edge is treated as a node without
\* outgoing edges: when it is reachable from the start id a finished run has
\* it in visited exactly once, and a step that finds it on top of the stack
\* pops it and pushes nothing.
C18_DanglingVisitedAsLeaf ==
  /\ []((isDone /\ visited # << >> /\ AbsentId \in Reachable(startNode))
          => Occurrences(visited, AbsentId) = 1)
  /\ [][(~isDone /\ stack # << >> /\ Top = AbsentId /\ AnyStep) =>
          /\ stack' = sliceButLast(stack)
          /\ visited' \in { visited, Append(visited, AbsentId) }
       ]_vars

\* a finished run from a node of the graph that went through a dangling edge.
C18_Witness ==
  /\ startNode # AbsentId
  /\ isDone
  /\ includes(visited, AbsentId)
  /\ Len(visited) >= 2

\* ------------------------------------------------------------------ C19
\* C19: isDone implies an empty stack and isRunning = false; isDone becomes
\* true only by a step that finds the stack empty, and becomes false only
\* by reset or start.
C19_DoneIsTerminal ==
  /\ [](isDone => (stack = << >> /\ ~isRunning))
  /\ [][/\ (~isDone /\ isDone') => (AnyStep /\ stack = << >>)
        /\ (isDone /\ ~isDone') => (Reset \/ StartDFS)
       ]_vars

\* a finished run, reached by auto-play.
C19_Witness ==
  /\ isDone
  /\ ~isRunning
  /\ stack = << >>
  /\ Len(visited) >= 2
  /\ hasCleanup = FALSE
  /\ timeoutRef # NoTimeout

\* ------------------------------------------------------------------ C20
\* C20: the start node changes only in a state where isRunning and isDone
\* are false, by a node click, and the same transition clears visited,
\* stack and current; a node click in a Running or Done state changes
\* nothing; the bottom entry of a non-empty stack is the start node.
C20_StartNodeOnlyByIdleClick ==
  /\ [](stack # << >> => stack[1] = startNode)
  /\ [][/\ startNode' # startNode =>
             /\ ~isRunning /\ ~isDone
             /\ NodeClick
             /\ visited' = << >> /\ stack' = << >> /\ current' = null
             /\ ~isRunning' /\ ~isDone'
        /\ ((isRunning \/ isDone) /\ NodeClick) => UNCHANGED vars
       ]_vars

\* a run paused midway whose stack bottom and first visit are the start
\* node: the state in which a node click changes the start node and resets.
C20_Witness ==
  /\ Len(stack) >= 2
  /\ stack[1] = startNode
  /\ Len(visited) >= 1
  /\ visited[1] = startNode
  /\ ~isRunning
  /\ ~isDone
  /\ timeoutRef > 1

====
